---- MODULE Spec2Model ----
(***************************************************************************)
(* Model of APR.py: the control-sheet generator.                           *)
(*   write_into_merged  (APR.py 28-40)   merged-region resolver            *)
(*   populate_fiche     (APR.py 42-127)  field mapper                      *)
(*   upload loop        (APR.py 145-187) per-file try/except/finally       *)
(* pandas / openpyxl values are modelled as tagged records; a DataFrame is *)
(* a set of columns and a sequence of rows; a worksheet is the sparse map  *)
(* coordinate -> value of the cells assigned since the template was loaded *)
(* together with the template's merged ranges.                             *)
(***************************************************************************)
EXTENDS Integers, Sequences, FiniteSets, TLC

VARIABLES
    df_gen,     \* sheet "Dossier Technique_general" of the source workbook
    df_lines,   \* sheet "Dossier Technique_lines" of the source workbook
    template,   \* merged ranges of sheet "Fiche de contrôle" of the template file
    max_plan,   \* argument max_plan of populate_fiche
    pc,         \* position inside populate_fiche
    row,        \* local row   (df_gen.iloc[row_index])
    file_name,  \* local file_name
    wb,         \* "none" until load_workbook has run, then "loaded"
    merged,     \* ws.merged_cells.ranges of the loaded worksheet
    ws,         \* cells assigned in the loaded worksheet
    i,          \* loop variable of the measurement loop (line 111)
    exc,        \* exception raised by populate_fiche ("" when none)
    ret,        \* value returned by populate_fiche
    uploaded,   \* st.file_uploader result: the sequence of uploaded files
    k,          \* index of the upload loop (0-based)
    ui,         \* position of the script around the upload loop
    shown,      \* UI elements emitted so far, in order
    tmp_files,  \* temporary input files present in OUTPUT_DIR
    started,    \* history: indexes of the files whose loop iteration began
    call        \* last direct call of write_into_merged (resolver runs)

vars == <<df_gen, df_lines, template, max_plan, pc, row, file_name, wb, merged, ws,
          i, exc, ret, uploaded, k, ui, shown, tmp_files, started, call>>

inputVars == <<df_gen, df_lines, template, max_plan>>
uiVars    == <<uploaded, k, ui, shown, tmp_files, started>>

(***************************************************************************)
(* Python / pandas values.  t is the type, v the text str() gives, tod the *)
(* time-of-day part of a Timestamp ("" for every other type).              *)
(***************************************************************************)
Val(t, v, tod) == [t |-> t, v |-> v, tod |-> tod]

None == Val("NoneType", "None", "")
NaN  == Val("float", "nan", "")
PyStr(s) == Val("str", s, "")
PyInt(s) == Val("int", s, "")
PyFloat(s) == Val("float", s, "")
Timestamp(day, tod) == Val("Timestamp", day, tod)
Date(day) == Val("date", day, "")

\* pd.isna / pd.notna on a scalar (lines 72, 81, 118-122)
isna(v) == v = None \/ v = NaN
notna(v) == ~isna(v)

\* Python truth value, as used by `or` on line 61: None, 0 and "" are false,
\* float nan is true.
bool(v) ==
    CASE v.t = "NoneType" -> FALSE
      [] v.t = "int"      -> v.v # "0"
      [] v.t = "float"    -> v.v # "0.0"
      [] v.t = "str"      -> v.v # ""
      [] OTHER            -> TRUE

\* a or b
PyOr(a, b) == IF bool(a) THEN a ELSE b

\* str(v)
str(v) == IF v.t = "Timestamp" THEN v.v \o " " \o v.tod ELSE v.v

\* Series.get(key) / Series.get(key, None): the value, or None when the
\* column is absent
get(r, col) == IF col \in DOMAIN r THEN r[col] ELSE None

\* The strings pd.to_datetime can parse, with the Timestamp each gives.
ParsedDates == [s \in {"2024-03-05", "2024-03-05 14:30:00"} |->
                  IF s = "2024-03-05" THEN Timestamp("2024-03-05", "00:00:00")
                                      ELSE Timestamp("2024-03-05", "14:30:00")]

\* pd.to_datetime(v).date() (line 80): exc is "" or the exception raised
to_datetime_date(v) ==
    CASE v.t = "Timestamp" -> [exc |-> "", value |-> Date(v.v)]
      [] v.t = "str" /\ v.v \in DOMAIN ParsedDates ->
             [exc |-> "", value |-> Date(ParsedDates[v.v].v)]
      [] OTHER -> [exc |-> "DateParseError", value |-> None]

(***************************************************************************)
(* Coordinates and merged ranges (openpyxl).                               *)
(***************************************************************************)
Letters == <<"A", "B", "C", "D", "E", "F", "G", "H", "I", "J", "K", "L", "M",
             "N", "O", "P", "Q", "R", "S", "T", "U", "V", "W", "X", "Y", "Z">>

\* get_column_letter(col) (line 37)
get_column_letter(col) == Letters[col]

\* f"{get_column_letter(col)}{row}"
Coord(col, r) == get_column_letter(col) \o ToString(r)

SheetCols == 1..Len(Letters)
SheetRows == 1..14

\* coordinate string -> <<column, row>>, as openpyxl parses "M1"
CoordIndex == [c \in {Coord(col, r) : col \in SheetCols, r \in SheetRows} |->
                 CHOOSE t \in SheetCols \X SheetRows : Coord(t[1], t[2]) = c]

Range(c1, r1, c2, r2) == [min_col |-> c1, min_row |-> r1, max_col |-> c2, max_row |-> r2]

\* coord in rng  (CellRange.__contains__, line 36)
Contains(rng, coord) ==
    LET t == CoordIndex[coord] IN
    /\ rng.min_col <= t[1] /\ t[1] <= rng.max_col
    /\ rng.min_row <= t[2] /\ t[2] <= rng.max_row

\* the anchor string built on line 37
AnchorOf(rng) == Coord(rng.min_col, rng.min_row)

\* A cell of a merged range other than its top-left cell is a read-only
\* MergedCell in openpyxl: assigning its value raises.
IsMergedCell(ranges, coord) ==
    \E j \in 1..Len(ranges) : Contains(ranges[j], coord) /\ AnchorOf(ranges[j]) # coord

EmptyCells == [c \in {} |-> None]

\* ws[coord] = value (lines 38, 40, 118-122)
SetCell(cells, ranges, coord, value) ==
    IF IsMergedCell(ranges, coord)
    THEN [exc |-> "AttributeError", cells |-> cells]
    ELSE [exc |-> "", cells |-> (coord :> value) @@ cells]

RECURSIVE FirstContaining(_, _, _)
\* the scan `for rng in ws.merged_cells.ranges: if coord in rng` (lines 35-36):
\* index of the first range containing coord, 0 when there is none
FirstContaining(ranges, coord, j) ==
    IF j > Len(ranges) THEN 0
    ELSE IF Contains(ranges[j], coord) THEN j
    ELSE FirstContaining(ranges, coord, j + 1)

\* mutant: the value is written at the requested coordinate, no redirection
write_into_merged_NoRedirect(cells, ranges, coord, value) ==
    IF value = None THEN [exc |-> "", cells |-> cells]
    ELSE SetCell(cells, ranges, coord, value)

\* write_into_merged(ws, coord, value) (lines 28-40)
write_into_merged(cells, ranges, coord, value) ==
    IF value = None THEN [exc |-> "", cells |-> cells]
    ELSE LET j == FirstContaining(ranges, coord, 1) IN
         IF j # 0 THEN SetCell(cells, ranges, AnchorOf(ranges[j]), value)
         ELSE SetCell(cells, ranges, coord, value)

(***************************************************************************)
(* populate_fiche: constants and helpers.                                  *)
(***************************************************************************)
MAX_PLAN_SLOTS == 6
row_index == 0

COL_OF      == "Numéro d' OF"
COL_KONCILE == "Koncile ID"
COL_DATE    == "Date de création"

\* num_of (line 61)
num_of(r) == str(PyOr(PyOr(get(r, COL_OF), get(r, COL_KONCILE)), PyStr("")))

\* file_name (line 64)
FileNameOf(id) == "Fiche de Contrôle - OF n° " \o id \o ".xlsx"

\* get_val (lines 70-72)
get_val(r, col_name) == LET v == get(r, col_name) IN IF isna(v) THEN None ELSE v

\* the "X2" entry of assignments (lines 80-81)
DateEntry(r) ==
    IF notna(get_val(r, COL_DATE)) THEN to_datetime_date(get_val(r, COL_DATE))
    ELSE [exc |-> "", value |-> None]

Asg(coord, value) == [coord |-> coord, value |-> value]

\* assignments (lines 75-88), in insertion order
assignments(r) ==
    << Asg("M1", get_val(r, "Nom du client")),
       Asg("T1", get_val(r, COL_OF)),
       Asg("K2", get_val(r, "Nom du plan")),
       Asg("T2", get_val(r, "Indice plan")),
       Asg("X2", DateEntry(r).value),
       Asg("X4", get_val(r, "Matière")),
       Asg("X5", get_val(r, "Couleur")),
       Asg("X6", get_val(r, "Tolérance Générale")),
       Asg("X7", get_val(r, "RA mini")),
       Asg("X8", get_val(r, "Cassage Angles Vifs")) >>

RECURSIVE WriteAssignments(_, _, _, _)
\* for coord, value in assignments.items(): write_into_merged(...) (lines 90-91)
WriteAssignments(cells, ranges, asg, j) ==
    IF j > Len(asg) THEN [exc |-> "", cells |-> cells]
    ELSE LET w == write_into_merged(cells, ranges, asg[j].coord, asg[j].value) IN
         IF w.exc # "" THEN w ELSE WriteAssignments(w.cells, ranges, asg, j + 1)

\* lines 94-98
plan_cells    == <<"G9", "I9", "K9", "M9", "O9", "Q9">>
plus_cells    == <<"G10", "I10", "K10", "M10", "O10", "Q10">>
minus_cells   == <<"G11", "I11", "K11", "M11", "O11", "Q11">>
moyenne_cells == <<"G12", "I12", "K12", "M12", "O12", "Q12">>
tools_cells   == <<"F14", "H14", "J14", "L14", "N14", "P14">>

\* col_map (lines 101-107), in insertion order
col_map_keys == <<"Côtes PLAN", "Tolérance supérieure", "Tolérance inférieure",
                  "Côtes MOYENNES", "Outil de mesure">>
col_map == [c \in {col_map_keys[j] : j \in 1..Len(col_map_keys)} |->
              CASE c = "Côtes PLAN"           -> "cote"
                [] c = "Tolérance supérieure" -> "plus"
                [] c = "Tolérance inférieure" -> "minus"
                [] c = "Côtes MOYENNES"       -> "moy"
                [] OTHER                      -> "outil"]

\* keep (line 108)
keep(df) == {c \in DOMAIN col_map : c \in df.columns}

\* dfL = df_lines[keep].rename(columns=col_map) (line 110): row j of dfL
dfL_row(df, j) ==
    [a \in {col_map[c] : c \in keep(df)} |->
        df.rows[j][CHOOSE c \in keep(df) : col_map[c] = a]]

\* the five guarded assignments of one loop iteration (lines 118-122)
GridStatements ==
    << [key |-> "cote",  cells |-> plan_cells],
       [key |-> "plus",  cells |-> plus_cells],
       [key |-> "minus", cells |-> minus_cells],
       [key |-> "moy",   cells |-> moyenne_cells],
       [key |-> "outil", cells |-> tools_cells] >>

RECURSIVE PlaceAttrs_StopAtNull(_, _, _, _, _)
\* mutant: the first null attribute of a record ends the record's iteration
PlaceAttrs_StopAtNull(cells, ranges, rec, idx, j) ==
    IF j > Len(GridStatements) THEN [exc |-> "", cells |-> cells]
    ELSE LET st == GridStatements[j]
             v  == get(rec, st.key)
         IN  IF notna(v)
             THEN IF idx + 1 \notin DOMAIN st.cells
                  THEN [exc |-> "IndexError", cells |-> cells]
                  ELSE LET w == SetCell(cells, ranges, st.cells[idx + 1], v) IN
                       IF w.exc # "" THEN w
                       ELSE PlaceAttrs_StopAtNull(w.cells, ranges, rec, idx, j + 1)
             ELSE [exc |-> "", cells |-> cells]

RECURSIVE PlaceAttrs(_, _, _, _, _)
\* statements j.. of the loop body for loop index idx (0-based) and dfL row rec;
\* cells[idx] on a list raises IndexError when idx is past its end
PlaceAttrs(cells, ranges, rec, idx, j) ==
    IF j > Len(GridStatements) THEN [exc |-> "", cells |-> cells]
    ELSE LET st == GridStatements[j]
             v  == get(rec, st.key)
         IN  IF notna(v)
             THEN IF idx + 1 \notin DOMAIN st.cells
                  THEN [exc |-> "IndexError", cells |-> cells]
                  ELSE LET w == SetCell(cells, ranges, st.cells[idx + 1], v) IN
                       IF w.exc # "" THEN w
                       ELSE PlaceAttrs(w.cells, ranges, rec, idx, j + 1)
             ELSE PlaceAttrs(cells, ranges, rec, idx, j + 1)

\* min(max_plan, len(dfL)) (line 111)
Min(a, b) == IF a <= b THEN a ELSE b
\* mutant: the capacity is ignored, every line record is placed
LoopCount_IgnoresCap(df, cap) == Len(df.rows)

LoopCount(df, cap) == Min(cap, Len(df.rows))

NoRow == [c \in {} |-> None]
NoRet == [data |-> EmptyCells, file_name |-> ""]

(***************************************************************************)
(* populate_fiche, one action per stage.                                   *)
(***************************************************************************)
\* mutant: the emptiness check is made only after the template was loaded
ReadSource_CheckAfterLoad ==
    /\ pc = "call"
    /\ IF df_gen.rows = <<>> \/ df_gen.columns = {}
       THEN /\ wb' = "loaded"
            /\ merged' = template
            /\ pc' = "raised"
            /\ exc' = "ValueError: Sheet 'Dossier Technique_general' is empty."
            /\ UNCHANGED <<row, file_name>>
       ELSE /\ row' = df_gen.rows[row_index + 1]
            /\ file_name' = FileNameOf(num_of(row'))
            /\ pc' = "load"
            /\ UNCHANGED <<exc, wb, merged>>
    /\ UNCHANGED <<inputVars, ws, i, ret, uiVars, call>>

\* lines 53-64: read both sheets, fail on an empty general sheet, take the row,
\* compute the file name
ReadSource ==
    /\ pc = "call"
    /\ IF df_gen.rows = <<>> \/ df_gen.columns = {}
       THEN /\ pc' = "raised"
            /\ exc' = "ValueError: Sheet 'Dossier Technique_general' is empty."
            /\ UNCHANGED <<row, file_name>>
       ELSE /\ row' = df_gen.rows[row_index + 1]
            /\ file_name' = FileNameOf(num_of(row'))
            /\ pc' = "load"
            /\ UNCHANGED exc
    /\ UNCHANGED <<inputVars, wb, merged, ws, i, ret, uiVars, call>>

\* lines 67-68: load the template, take its sheet
LoadTemplate ==
    /\ pc = "load"
    /\ wb' = "loaded"
    /\ merged' = template
    /\ ws' = EmptyCells
    /\ pc' = "header"
    /\ UNCHANGED <<inputVars, row, file_name, i, exc, ret, uiVars, call>>

\* lines 75-91: build assignments (the date conversion may raise), then write
\* each entry through write_into_merged
WriteHeader ==
    /\ pc = "header"
    /\ IF DateEntry(row).exc # ""
       THEN /\ pc' = "raised"
            /\ exc' = DateEntry(row).exc
            /\ UNCHANGED <<ws, i>>
       ELSE LET w == WriteAssignments(ws, merged, assignments(row), 1) IN
            /\ ws' = w.cells
            /\ exc' = w.exc
            /\ pc' = IF w.exc # "" THEN "raised" ELSE "lines"
            /\ i' = 0
    /\ UNCHANGED <<inputVars, row, file_name, wb, merged, ret, uiVars, call>>

\* lines 111-122: one iteration of the measurement loop
PlaceLine ==
    /\ pc = "lines"
    /\ keep(df_lines) # {}
    /\ i < LoopCount(df_lines, max_plan)
    /\ LET w == PlaceAttrs(ws, merged, dfL_row(df_lines, i + 1), i, 1) IN
       /\ ws' = w.cells
       /\ exc' = w.exc
       /\ IF w.exc # "" THEN pc' = "raised" /\ i' = i
                        ELSE pc' = "lines" /\ i' = i + 1
    /\ UNCHANGED <<inputVars, row, file_name, wb, merged, ret, uiVars, call>>

\* lines 124-127: the loop is over (or was skipped, line 109); save and return
Save ==
    /\ pc = "lines"
    /\ keep(df_lines) = {} \/ i >= LoopCount(df_lines, max_plan)
    /\ ret' = [data |-> ws, file_name |-> file_name]
    /\ pc' = "returned"
    /\ UNCHANGED <<inputVars, row, file_name, wb, merged, ws, i, exc, uiVars, call>>

(***************************************************************************)
(* Inputs of populate_fiche.                                               *)
(***************************************************************************)
MaxLines   == 7     \* most line records of a source workbook
MaxPlanArg == 7     \* largest max_plan argument tried

ABSENT == Val("<absent column>", "", "")

PlainCols == {"Nom du client", "Nom du plan", "Indice plan", "Matière", "Couleur",
              "Tolérance Générale", "RA mini", "Cassage Angles Vifs"}
GenCols == PlainCols \cup {COL_OF, COL_KONCILE, COL_DATE}

PlainValue == [c \in PlainCols |->
                 CASE c = "Nom du client" -> PyStr("ACME")
                   [] c = "Nom du plan"   -> PyStr("PL-42")
                   [] c = "Indice plan"   -> PyStr("B")
                   [] c = "Matière"       -> PyStr("POM")
                   [] c = "Couleur"       -> PyStr("noir")
                   [] c = "Tolérance Générale" -> PyStr("ISO 2768-m")
                   [] c = "RA mini"       -> PyFloat("1.6")
                   [] OTHER               -> PyFloat("0.2")]

OFValues      == {ABSENT, NaN, PyInt("0"), PyInt("7"), PyStr("A12")}
KoncileValues == {ABSENT, NaN, PyStr("K1")}
DateValues    == {ABSENT, NaN, Timestamp("2024-03-05", "14:30:00"),
                  PyStr("2024-03-05"), PyStr("à confirmer")}

\* a row with the given identifier and date cells, where plain column `miss`
\* (if any) holds `how` (ABSENT or NaN) and every other plain column its value
GenRow(of, kon, date, miss, how) ==
    LET full == [c \in GenCols |->
                   CASE c = COL_OF      -> of
                     [] c = COL_KONCILE -> kon
                     [] c = COL_DATE    -> date
                     [] OTHER -> IF c = miss THEN how ELSE PlainValue[c]]
    IN  [c \in {d \in GenCols : full[d] # ABSENT} |-> full[c]]

GenRows == {GenRow(of, kon, date, miss, how) :
              of \in OFValues, kon \in KoncileValues, date \in DateValues,
              miss \in PlainCols \cup {""}, how \in {ABSENT, NaN}}

Frame(cols, rows) == [columns |-> cols, rows |-> rows]

\* general sheets: one data row, a header without data rows, a blank sheet
GenTables == {Frame(DOMAIN r, <<r>>) : r \in GenRows}
             \cup {Frame(GenCols, <<>>), Frame({}, <<>>)}

GoodRow == GenRow(PyInt("7"), PyStr("K1"), Timestamp("2024-03-05", "14:30:00"), "", NaN)
BasicGen == {Frame(DOMAIN GoodRow, <<GoodRow>>)}

TrackedCols == DOMAIN col_map

\* the value of line record j (1-based) in column c
LineVal(c, j) == PyFloat(col_map[c] \o "#" \o ToString(j))

\* n line records over the columns cols; record j0 has NaN in the columns of S
LinesTable(cols, n, j0, S) ==
    Frame(cols, [j \in 1..n |-> [c \in cols |->
                    IF j = j0 /\ c \in S THEN NaN ELSE LineVal(c, j)]])

LinesTables == {LinesTable(cols, n, j0, S) :
                  cols \in SUBSET TrackedCols, n \in 0..MaxLines,
                  j0 \in 0..MaxLines, S \in SUBSET TrackedCols}

HeaderLines == {LinesTable(TrackedCols, 1, 0, {}),
                LinesTable(TrackedCols \ {"Outil de mesure"}, 1, 0, {})}

\* Merged ranges of the template sheet.  The template file is not part of the
\* sources; these tables merge header cells only, or a slot cell as the anchor
\* of its range, as the grid writes of lines 118-122 require.
T0 == <<>>
T1 == << Range(12, 1, 18, 1),     \* L1:R1, holds M1
         Range(20, 1, 23, 1),     \* T1:W1, anchored at T1
         Range(7, 9, 8, 9) >>     \* G9:H9, anchored at G9
T2 == << Range(23, 4, 24, 8) >>   \* W4:X8, holds X4..X8
Templates == {T0, T1, T2}

NoCall == [coord |-> "", value |-> None, before |-> EmptyCells, exc |-> ""]

InitNoUI ==
    /\ uploaded = <<>> /\ k = 0 /\ ui = "no ui" /\ shown = <<>> /\ tmp_files = {}
    /\ started = <<>>

InitLocals ==
    /\ pc = "call" /\ row = NoRow /\ file_name = "" /\ wb = "none"
    /\ merged = <<>> /\ ws = EmptyCells /\ i = 0 /\ exc = "" /\ ret = NoRet
    /\ call = NoCall

\* a direct call populate_fiche(src, template, row_index=0, max_plan)
Init ==
    /\ \/ /\ df_gen \in GenTables
          /\ df_lines \in HeaderLines
          /\ max_plan = MAX_PLAN_SLOTS
          /\ template \in Templates
       \/ /\ df_gen \in BasicGen
          /\ df_lines \in LinesTables
          /\ max_plan \in 0..MaxPlanArg
          /\ template = T1
    /\ InitLocals
    /\ InitNoUI

Next == ReadSource \/ LoadTemplate \/ WriteHeader \/ PlaceLine \/ Save

Spec == Init /\ [][Next]_vars

(***************************************************************************)
(* write_into_merged called directly, on a small sheet with any table of   *)
(* one or two merged ranges (overlapping tables included).                 *)
(***************************************************************************)
MaxCol == 3
MaxRow == 2

GridCoords == {Coord(c, r) : c \in 1..MaxCol, r \in 1..MaxRow}

\* a merged range spans at least two cells
GridRanges == {Range(c1, r1, c2, r2) :
                 <<c1, r1, c2, r2>> \in
                   {t \in (1..MaxCol) \X (1..MaxRow) \X (1..MaxCol) \X (1..MaxRow) :
                      t[1] <= t[3] /\ t[2] <= t[4] /\ (t[1] < t[3] \/ t[2] < t[4])}}

RangeTables == {<<>>} \cup {<<r>> : r \in GridRanges}
               \cup {<<r, s>> : <<r, s>> \in {p \in GridRanges \X GridRanges : p[1] # p[2]}}

CallValues == {None, PyStr("v")}

ResolverInit ==
    /\ merged \in RangeTables
    /\ template = merged
    /\ wb = "loaded" /\ ws = EmptyCells /\ call = NoCall
    /\ df_gen = Frame({}, <<>>) /\ df_lines = Frame({}, <<>>) /\ max_plan = MAX_PLAN_SLOTS
    /\ pc = "idle" /\ row = NoRow /\ file_name = "" /\ i = 0 /\ exc = "" /\ ret = NoRet
    /\ InitNoUI

\* write_into_merged(ws, coord, value) on the loaded sheet
WriteIntoMerged(coord, value) ==
    /\ pc = "idle" /\ ui = "no ui"
    /\ call = NoCall
    /\ LET w == write_into_merged(ws, merged, coord, value) IN
       /\ ws' = w.cells
       /\ call' = [coord |-> coord, value |-> value, before |-> ws, exc |-> w.exc]
    /\ UNCHANGED <<inputVars, pc, row, file_name, wb, merged, i, exc, ret, uiVars>>

ResolverNext == \E coord \in GridCoords, value \in CallValues : WriteIntoMerged(coord, value)

ResolverSpec == ResolverInit /\ [][ResolverNext]_vars

(***************************************************************************)
(* The script around populate_fiche: the upload loop (lines 145-187).      *)
(***************************************************************************)
MaxFiles == 2       \* most files uploaded at once

File(name, gen, lines) == [name |-> name, df_gen |-> gen, df_lines |-> lines]

OtherRow == GenRow(PyStr("A12"), ABSENT, NaN, "", NaN)
BadDateRow == GenRow(PyInt("7"), ABSENT, PyStr("à confirmer"), "", NaN)

UploadFiles ==
    { File("a.xlsx", Frame(DOMAIN GoodRow, <<GoodRow>>), LinesTable(TrackedCols, 1, 0, {})),
      File("b.xlsx", Frame(DOMAIN OtherRow, <<OtherRow>>), LinesTable(TrackedCols, 1, 0, {})),
      File("c.xlsx", Frame(GenCols, <<>>), LinesTable(TrackedCols, 1, 0, {})),
      File("d.xlsx", Frame(DOMAIN BadDateRow, <<BadDateRow>>), LinesTable(TrackedCols, 1, 0, {})) }

RECURSIVE SeqsUpTo(_, _)
SeqsUpTo(S, n) ==
    IF n = 0 THEN {<<>>}
    ELSE LET shorter == SeqsUpTo(S, n - 1) IN
         shorter \cup {Append(q, x) : q \in shorter, x \in S}

Shown(kind, idx, text) == [kind |-> kind, file |-> idx, text |-> text]

\* keys of the download buttons created so far in this script run
WidgetKeys == {shown[j].text : j \in {n \in 1..Len(shown) : shown[n].kind = "download_button"}}

TmpName(up) == "__tmp_input_" \o up.name

UIInit ==
    /\ uploaded \in SeqsUpTo(UploadFiles, MaxFiles)
    /\ k = 0 /\ ui = "start" /\ shown = <<>> /\ tmp_files = {} /\ started = <<>>
    /\ template = T1
    /\ df_gen = Frame({}, <<>>) /\ df_lines = Frame({}, <<>>) /\ max_plan = MAX_PLAN_SLOTS
    /\ pc = "idle" /\ row = NoRow /\ file_name = "" /\ wb = "none"
    /\ merged = <<>> /\ ws = EmptyCells /\ i = 0 /\ exc = "" /\ ret = NoRet
    /\ call = NoCall

popVars == <<row, file_name, wb, merged, ws, i, exc, ret>>

\* lines 145-148 and 186-187: `if uploaded:` ... `else:`
Start ==
    /\ ui = "start"
    /\ IF uploaded # <<>>
       THEN /\ shown' = shown \o <<Shown("divider", -1, ""), Shown("subheader", -1, "Résultats")>>
            /\ ui' = "loop"
       ELSE /\ shown' = Append(shown, Shown("write", -1, "Aucun fichier déposé pour l'instant."))
            /\ ui' = "done"
    /\ UNCHANGED <<inputVars, pc, popVars, uploaded, k, tmp_files, started, call>>

\* lines 149-162: next file; write its bytes to the temporary file and call
\* populate_fiche(tmp_src, TEMPLATE_PATH, None, 0, MAX_PLAN_SLOTS)
BeginFile ==
    /\ ui = "loop"
    /\ k < Len(uploaded)
    /\ LET up == uploaded[k + 1] IN
       /\ tmp_files' = tmp_files \cup {TmpName(up)}
       /\ df_gen' = up.df_gen
       /\ df_lines' = up.df_lines
    /\ max_plan' = MAX_PLAN_SLOTS
    /\ started' = Append(started, k)
    /\ pc' = "call" /\ row' = NoRow /\ file_name' = "" /\ wb' = "none"
    /\ merged' = <<>> /\ ws' = EmptyCells /\ i' = 0 /\ exc' = "" /\ ret' = NoRet
    /\ ui' = "in try"
    /\ UNCHANGED <<template, uploaded, k, shown, call>>

\* lines 164-174, then `finally` (178-183): populate_fiche returned; report
\* success, then create the download button, whose key must be new in this
\* script run: a duplicate key raises inside the try and `except` reports it
OnReturn ==
    /\ ui = "in try"
    /\ pc = "returned"
    /\ LET up  == uploaded[k + 1]
           key == "dl_" \o ret.file_name
           ok  == Shown("success", k, ret.file_name)
       IN  /\ shown' = IF key \in WidgetKeys
                        THEN shown \o <<ok, Shown("error", k, "DuplicateWidgetID")>>
                        ELSE shown \o <<ok, Shown("download_button", k, key)>>
           /\ tmp_files' = tmp_files \ {TmpName(up)}
    /\ k' = k + 1
    /\ ui' = "loop"
    /\ pc' = "idle"
    /\ UNCHANGED <<inputVars, popVars, uploaded, started, call>>

\* mutant: the exception is not caught; the script run ends with it
OnException_Propagates ==
    /\ ui = "in try"
    /\ pc = "raised"
    /\ tmp_files' = tmp_files \ {TmpName(uploaded[k + 1])}
    /\ ui' = "crashed"
    /\ pc' = "idle"
    /\ UNCHANGED <<inputVars, popVars, uploaded, k, shown, started, call>>

\* lines 176-177, then `finally` (178-183): populate_fiche raised
OnException ==
    /\ ui = "in try"
    /\ pc = "raised"
    /\ LET up == uploaded[k + 1] IN
       /\ shown' = Append(shown, Shown("error", k, exc))
       /\ tmp_files' = tmp_files \ {TmpName(up)}
    /\ k' = k + 1
    /\ ui' = "loop"
    /\ pc' = "idle"
    /\ UNCHANGED <<inputVars, popVars, uploaded, started, call>>

\* line 185: the loop is over
Finish ==
    /\ ui = "loop"
    /\ k >= Len(uploaded)
    /\ shown' = Append(shown, Shown("info", -1, "Toutes les fiches ont été générées "))
    /\ ui' = "done"
    /\ UNCHANGED <<inputVars, pc, popVars, uploaded, k, tmp_files, started, call>>

UINext ==
    \/ Start \/ BeginFile \/ OnReturn \/ OnException \/ Finish
    \/ ReadSource \/ LoadTemplate \/ WriteHeader \/ PlaceLine \/ Save

\* the script runs on one thread from top to bottom: every enabled step is taken
UISpec == UIInit /\ [][UINext]_vars /\ WF_vars(UINext)

(***************************************************************************)
(* Vocabulary of the properties.                                           *)
(***************************************************************************)
EmptyError == "ValueError: Sheet 'Dossier Technique_general' is empty."

HasGeneralRow == df_gen.rows # <<>> /\ df_gen.columns # {}

\* the general record the run consumes
gen0 == df_gen.rows[1]

\* a value that is present and that pd.to_datetime cannot convert
Malformed(v) == notna(v) /\ v.t = "str" /\ v.v \notin {"2024-03-05", "2024-03-05 14:30:00"}

\* the cells where a value requested at coord may land: the anchors of the
\* ranges holding coord, coord itself when no range holds it
Holders(ranges, coord) == {j \in 1..Len(ranges) : Contains(ranges[j], coord)}
Targets(ranges, coord) ==
    IF Holders(ranges, coord) = {} THEN {coord}
    ELSE {AnchorOf(ranges[j]) : j \in Holders(ranges, coord)}

Disjoint(r, q) ==
    \/ r.max_col < q.min_col \/ q.max_col < r.min_col
    \/ r.max_row < q.min_row \/ q.max_row < r.min_row
NonOverlapping(ranges) ==
    \A a, b \in 1..Len(ranges) : a # b => Disjoint(ranges[a], ranges[b])

\* header layout: coordinate -> source column
HeaderCoords == {"M1", "T1", "K2", "T2", "X2", "X4", "X5", "X6", "X7", "X8"}
HeaderColumn == [c \in HeaderCoords |->
                   CASE c = "M1" -> "Nom du client"
                     [] c = "T1" -> COL_OF
                     [] c = "K2" -> "Nom du plan"
                     [] c = "T2" -> "Indice plan"
                     [] c = "X2" -> COL_DATE
                     [] c = "X4" -> "Matière"
                     [] c = "X5" -> "Couleur"
                     [] c = "X6" -> "Tolérance Générale"
                     [] c = "X7" -> "RA mini"
                     [] OTHER    -> "Cassage Angles Vifs"]

\* measurement layout: source column and slot index (0-based) -> coordinate
SlotLetters == [a \in {"plan", "tools"} |->
                  IF a = "plan" THEN <<"G", "I", "K", "M", "O", "Q">>
                                ELSE <<"F", "H", "J", "L", "N", "P">>]
SlotRow == [c \in TrackedCols |->
              CASE c = "Côtes PLAN"           -> 9
                [] c = "Tolérance supérieure" -> 10
                [] c = "Tolérance inférieure" -> 11
                [] c = "Côtes MOYENNES"       -> 12
                [] OTHER                      -> 14]
SlotCount == 6
HasSlot(idx) == idx \in 0..(SlotCount - 1)
SlotCell(c, idx) ==
    SlotLetters[IF c = "Outil de mesure" THEN "tools" ELSE "plan"][idx + 1]
        \o ToString(SlotRow[c])
AllSlotCells == {SlotCell(c, idx) : c \in TrackedCols, idx \in 0..(SlotCount - 1)}

NLines == Len(df_lines.rows)
Placed == Min(max_plan, NLines)

\* line record idx (0-based) has a value in column c
HasValue(c, idx) == c \in df_lines.columns /\ notna(df_lines.rows[idx + 1][c])

\* slot idx of cells holds exactly the non-null tracked values of record idx
SlotHoldsRecord(cells, idx) ==
    \A c \in TrackedCols :
        IF HasValue(c, idx)
        THEN /\ HasSlot(idx)
             /\ SlotCell(c, idx) \in DOMAIN cells
             /\ cells[SlotCell(c, idx)] = df_lines.rows[idx + 1][c]
        ELSE HasSlot(idx) => SlotCell(c, idx) \notin DOMAIN cells

SlotUntouched(cells, idx) ==
    \A c \in TrackedCols : SlotCell(c, idx) \notin DOMAIN cells

\* the header fields whose value is missing / present in the general record
MissingFields == {c \in HeaderCoords : isna(get(gen0, HeaderColumn[c]))}
PresentFields == HeaderCoords \ MissingFields

\* the value the sheet shows for header field c once the header is written
ShownValue(c) ==
    IF c = "X2" THEN Date(gen0[COL_DATE].v) ELSE gen0[HeaderColumn[c]]

\* header field c was written: its anchor holds the value of a present field
\* that lands on the same anchor
HeaderWritten(cells, c) ==
    \E a \in Targets(template, c) :
        /\ a \in DOMAIN cells
        /\ \E d \in PresentFields : a \in Targets(template, d) /\ cells[a] = ShownValue(d)

\* nothing was written for header field c: its anchor is untouched, or holds
\* the value of another, present field that shares the anchor
HeaderSkipped(cells, c) ==
    \A a \in Targets(template, c) :
        a \in DOMAIN cells =>
            \E d \in PresentFields : a \in Targets(template, d) /\ cells[a] = ShownValue(d)

(***************************************************************************)
(* C1  Fallback identifier: the returned file name is                      *)
(* "Fiche de Contrôle - OF n° {id}.xlsx" where id is the work-order number *)
(* when it is present, else the Koncile ID when that is present (the       *)
(* work-order number being null, NaN, missing or empty), else "".          *)
(***************************************************************************)
IsPresent(v) == notna(v) /\ v # PyStr("")
ExpectedId ==
    IF IsPresent(get(gen0, COL_OF)) THEN get(gen0, COL_OF).v
    ELSE IF IsPresent(get(gen0, COL_KONCILE)) THEN get(gen0, COL_KONCILE).v
    ELSE ""
C1_FallbackIdentifier ==
    pc = "returned" =>
        ret.file_name = "Fiche de Contrôle - OF n° " \o ExpectedId \o ".xlsx"

(***************************************************************************)
(* C2  Malformed dates are skipped, not raised: when "Date de création" is *)
(* present and not convertible, populate_fiche raises nothing, writes      *)
(* nothing for X2, writes every other present header field and every       *)
(* placed line record, and returns.                                        *)
(***************************************************************************)
C2_MalformedDateSkipped ==
    (HasGeneralRow /\ Malformed(get(gen0, COL_DATE))) =>
        /\ pc # "raised"
        /\ pc = "returned" =>
              /\ \A a \in Targets(template, "X2") : a \notin DOMAIN ret.data
              /\ \A c \in PresentFields \ {"X2"} : HeaderWritten(ret.data, c)
              /\ \A idx \in 0..(Placed - 1) : SlotHoldsRecord(ret.data, idx)

(***************************************************************************)
(* C3  Resolver correctness: with non-overlapping merged ranges, a non-None*)
(* value written through write_into_merged lands on exactly one cell, the  *)
(* anchor of the range holding the coordinate if there is one, else the    *)
(* coordinate itself, and the call does not fail.                          *)
(***************************************************************************)
ChangedCells ==
    {c \in DOMAIN ws : c \notin DOMAIN call.before \/ ws[c] # call.before[c]}
C3_ResolverCorrect ==
    (call # NoCall /\ call.value # None /\ NonOverlapping(merged)) =>
        /\ call.exc = ""
        /\ Cardinality(ChangedCells) = 1
        /\ ChangedCells = Targets(merged, call.coord)
        /\ \A c \in ChangedCells : ws[c] = call.value
        /\ \A c \in DOMAIN call.before : c \in DOMAIN ws
C3_Witness ==
    /\ call # NoCall /\ call.value # None
    /\ Len(merged) = 2 /\ NonOverlapping(merged)
    /\ \E j \in Holders(merged, call.coord) :
          /\ AnchorOf(merged[j]) # call.coord
          /\ AnchorOf(merged[j]) \in DOMAIN ws
          /\ call.coord \notin DOMAIN ws

(***************************************************************************)
(* C4  Empty general sheet: with zero general rows populate_fiche fails    *)
(* with the "sheet is empty" ValueError before the template is loaded or a *)
(* cell is written, and returns nothing.                                   *)
(***************************************************************************)
C4_EmptyGeneralFails ==
    df_gen.rows = <<>> =>
        /\ pc \in {"call", "raised"}
        /\ pc = "raised" => exc = EmptyError
        /\ wb = "none" /\ merged = <<>> /\ ws = EmptyCells
        /\ ret = NoRet
C4_Witness ==
    df_gen.rows = <<>> /\ df_gen.columns # {} /\ pc = "raised" /\ exc = EmptyError

(***************************************************************************)
(* C5  Slot capacity clamp: for every number n of line records and every   *)
(* capacity c (max_plan), populate_fiche completes and fills exactly the   *)
(* slots 0..min(c, n)-1, slot i from line record i; later records are not  *)
(* written anywhere.  (Stated here for general records that are present    *)
(* and whose date converts.)                                               *)
(***************************************************************************)
C5_SlotCapacityClamp ==
    (HasGeneralRow /\ ~Malformed(get(gen0, COL_DATE))) =>
        /\ pc # "raised"
        /\ pc = "returned" =>
              /\ \A idx \in 0..(Placed - 1) : SlotHoldsRecord(ret.data, idx)
              /\ \A idx \in 0..(SlotCount - 1) : idx >= Placed => SlotUntouched(ret.data, idx)

(***************************************************************************)
(* C6  Batch isolation: every uploaded file is processed exactly once, in  *)
(* upload order, and ends with a success or an error message; a failure on *)
(* one file does not keep the later files from being processed; the loop   *)
(* always reaches its end.                                                 *)
(***************************************************************************)
Results(idx) ==
    {n \in 1..Len(shown) : shown[n].file = idx /\ shown[n].kind \in {"success", "error"}}
InUploadOrder ==
    \A a, b \in 1..Len(shown) :
        (a < b /\ shown[a].file >= 0 /\ shown[b].file >= 0) => shown[a].file <= shown[b].file
C6_LoopDone ==
    ui = "done" =>
        /\ started = [n \in 1..Len(uploaded) |-> n - 1]
        /\ \A idx \in 0..(Len(uploaded) - 1) : Results(idx) # {}
        /\ InUploadOrder
        /\ tmp_files = {}
C6_BatchIsolation ==
    /\ [](C6_LoopDone /\ Len(started) <= Len(uploaded))
    /\ <>(ui = "done")
C6_Witness ==
    /\ ui = "done" /\ Len(uploaded) = 2
    /\ \E n \in Results(0) : shown[n].kind = "error" /\ shown[n].text = EmptyError
    /\ \E n \in Results(1) : shown[n].kind = "success"
    /\ \A n \in Results(1) : shown[n].kind = "success"

(***************************************************************************)
(* C7  Missing column: when a tracked column is absent from the lines      *)
(* sheet populate_fiche does not fail, writes no cell of that attribute in *)
(* any slot and still writes the present attributes of each placed record; *)
(* with all five absent it writes no measurement cell and still returns.   *)
(***************************************************************************)
C7_MissingColumn ==
    (HasGeneralRow /\ ~(TrackedCols \subseteq df_lines.columns)) =>
        /\ pc # "raised"
        /\ pc = "returned" =>
              /\ \A c \in TrackedCols \ df_lines.columns :
                    \A idx \in 0..(SlotCount - 1) : SlotCell(c, idx) \notin DOMAIN ret.data
              /\ \A idx \in 0..(Placed - 1) : SlotHoldsRecord(ret.data, idx)

(***************************************************************************)
(* C8  Partial row tolerance: for every placed line record, exactly the    *)
(* cells of its slot for the non-null attributes are written and those for *)
(* the null attributes are left as in the template; a null attribute never *)
(* suppresses a write in its own or another slot.                          *)
(***************************************************************************)
C8_PartialRows ==
    pc \in {"lines", "raised", "returned"} =>
        /\ \A idx \in 0..(i - 1) : SlotHoldsRecord(ws, idx)
        /\ \A idx \in 0..(SlotCount - 1) : idx >= i => SlotUntouched(ws, idx)
        /\ pc = "returned" => ret.data = ws /\ (keep(df_lines) # {} => i = Placed)
C8_Witness ==
    /\ pc = "returned" /\ i >= 3
    /\ \E c, d \in TrackedCols :
          /\ c \in df_lines.columns /\ d \in df_lines.columns
          /\ isna(df_lines.rows[2][c]) /\ notna(df_lines.rows[2][d])
          /\ SlotCell(c, 1) \notin DOMAIN ret.data
          /\ SlotCell(d, 1) \in DOMAIN ret.data
          /\ SlotCell(c, 2) \in DOMAIN ret.data

(***************************************************************************)
(* C9  Scalar skip-on-missing: for every header field whose value is None, *)
(* NaN or whose column is absent, populate_fiche writes nothing for that   *)
(* field, raises no error, and still writes every other present field.     *)
(***************************************************************************)
C9_ScalarSkip ==
    (HasGeneralRow /\ MissingFields # {}) =>
        /\ pc # "raised"
        /\ pc \in {"lines", "returned"} =>
              /\ \A c \in MissingFields : HeaderSkipped(ws, c)
              /\ \A c \in PresentFields : HeaderWritten(ws, c)

(***************************************************************************)
(* C10 Frame of populate_fiche: after a successful run the only cells that *)
(* differ from the template are anchors of the ten header coordinates and  *)
(* the raw slot coordinates of the slots below min(max_plan, line count).  *)
(***************************************************************************)
HeaderTargets == UNION {Targets(template, c) : c \in HeaderCoords}
PlacedSlotCells ==
    {SlotCell(c, idx) : c \in TrackedCols, idx \in {n \in 0..(SlotCount - 1) : n < Placed}}
C10_Frame ==
    pc = "returned" => DOMAIN ret.data \subseteq (HeaderTargets \cup PlacedSlotCells)
C10_Witness ==
    /\ pc = "returned" /\ template = T1
    /\ 0 < max_plan /\ max_plan < NLines
    /\ "L1" \in DOMAIN ret.data /\ "M1" \notin DOMAIN ret.data
    /\ SlotCell("Côtes PLAN", max_plan - 1) \in DOMAIN ret.data
    /\ SlotCell("Côtes PLAN", max_plan) \notin DOMAIN ret.data

====
